---- MODULE Spec2Model ----
(***************************************************************************)
(* Model of the dotfile synchronizer of mac-dotfiles (src/app.py and       *)
(* src/setup.py): the marker-delimited text merge (extract / remove /      *)
(* append a custom section) and the operations that drive it over the      *)
(* tracked files (deploy, deploy-all, capture, backup, clear).             *)
(*                                                                         *)
(* File contents are TLA+ strings, and the two marker lines are the        *)
(* literal strings of the source, so that a text of the model is the very  *)
(* text the scripts read and write.  The regular expressions of the source *)
(* are modelled by what re.findall / re.sub do with them: leftmost,        *)
(* non-overlapping, non-greedy matches from a start tag to the first end   *)
(* tag that follows it.                                                    *)
(***************************************************************************)
EXTENDS Integers, Sequences, FiniteSets, TLC

(***************************************************************************)
(* Program constants                                                       *)
(***************************************************************************)
CUSTOM_START_TAG == "# >>> Henry's customizations"
CUSTOM_END_TAG == "# <<< Henry's customizations"

\* The characters str.strip() removes (those for which str.isspace() holds),
\* as far as a string literal can hold them: space, \t, \n, \r, \f, then, as
\* raw characters of the module (which is UTF-8 text), \x0b (vertical tab),
\* \x1c, \x1d, \x1e, \x1f (the file, group, record and unit separators),
\* \x85 (next line), \xa0 (no-break space) and U+1680 (ogham space mark).
\* Python also strips U+2000 to U+200A, U+2028, U+2029, U+202F, U+205F and
\* U+3000; the lexer takes none of them inside a string.
WHITESPACE ==
    {" ", "\t", "\n", "\r", "\f",
     "", "", "", "", "", "", " ", " "}

(***************************************************************************)
(* Strings                                                                 *)
(***************************************************************************)
\* s[i-1:] of Python: the text from position i to the end.
From(s, i) == SubSeq(s, i, Len(s))

\* tag occurs in s at position i.
OccursAt(s, tag, i) ==
    /\ i >= 1
    /\ i + Len(tag) - 1 <= Len(s)
    /\ SubSeq(s, i, i + Len(tag) - 1) = tag

\* str.find: the first position >= i where tag occurs in s, 0 when none.
Find(s, tag, i) ==
    LET hits == {j \in i..(Len(s) - Len(tag) + 1) : OccursAt(s, tag, j)}
    IN  IF hits = {} THEN 0
        ELSE CHOOSE j \in hits : \A k \in hits : j <= k

\* "tag in s" of Python.
Contains(s, tag) == Find(s, tag, 1) # 0

\* s.endswith(c)
EndsWith(s, c) == Len(s) >= Len(c) /\ SubSeq(s, Len(s) - Len(c) + 1, Len(s)) = c

\* str.lstrip(): drop the leading whitespace.
lstrip(s) ==
    LET keep == {i \in 1..Len(s) : SubSeq(s, i, i) \notin WHITESPACE}
    IN  IF keep = {} THEN ""
        ELSE SubSeq(s, CHOOSE i \in keep : \A k \in keep : i <= k, Len(s))

\* str.rstrip(): drop the trailing whitespace.
rstrip(s) ==
    LET keep == {i \in 1..Len(s) : SubSeq(s, i, i) \notin WHITESPACE}
    IN  IF keep = {} THEN ""
        ELSE SubSeq(s, 1, CHOOSE i \in keep : \A k \in keep : i >= k)

\* str.strip(): drop leading and trailing whitespace.
strip(s) == rstrip(lstrip(s))

\* sep.join(parts)
RECURSIVE join(_, _)
join(sep, parts) ==
    IF parts = <<>> THEN ""
    ELSE IF Len(parts) = 1 THEN parts[1]
    ELSE parts[1] \o sep \o join(sep, Tail(parts))

(***************************************************************************)
(* The section pattern  START.*?END  with re.DOTALL                        *)
(***************************************************************************)
\* The matches of the pattern in content from position pos on, as re.finditer
\* yields them: each match is <<first, last>>, the span from a start tag to
\* the end of the first end tag after it; the scan resumes after the match.
\* With nl (the pattern of remove_custom_sections, which ends in \n?) a
\* newline right after the end tag belongs to the match.
RECURSIVE section_spans(_, _, _)
section_spans(content, pos, nl) ==
    LET s == Find(content, CUSTOM_START_TAG, pos)
        e == IF s = 0 THEN 0
             ELSE Find(content, CUSTOM_END_TAG, s + Len(CUSTOM_START_TAG))
        endtag == e + Len(CUSTOM_END_TAG) - 1
        last == IF nl /\ OccursAt(content, "\n", endtag + 1)
                THEN endtag + 1 ELSE endtag
    IN  IF s = 0 \/ e = 0 THEN <<>>
        ELSE <<(<<s, last>>)>> \o section_spans(content, last + 1, nl)

\* re.sub('', content) for the given matches: the text outside the spans,
\* from position pos on, spans[k] being the next match.
RECURSIVE outside_spans(_, _, _, _)
outside_spans(content, spans, k, pos) ==
    IF k > Len(spans) THEN From(content, pos)
    ELSE SubSeq(content, pos, spans[k][1] - 1)
         \o outside_spans(content, spans, k + 1, spans[k][2] + 1)

\* As extract_custom_sections, but the match is greedy (START.*END): one span
\* from the first start tag to the last end tag after it.
extract_custom_sections_greedy(content) ==
    LET s == Find(content, CUSTOM_START_TAG, 1)
        ends == {j \in 1..Len(content) :
                    /\ s # 0
                    /\ j >= s + Len(CUSTOM_START_TAG)
                    /\ OccursAt(content, CUSTOM_END_TAG, j)}
        e == CHOOSE j \in ends : \A k \in ends : k <= j
    IN  IF ends = {} THEN <<>>
        ELSE <<SubSeq(content, s, e + Len(CUSTOM_END_TAG) - 1)>>

\* extract_custom_sections: pattern.findall(content), the matched spans with
\* their tags, in document order.
extract_custom_sections(content) ==
    LET spans == section_spans(content, 1, FALSE)
    IN  [k \in 1..Len(spans) |-> SubSeq(content, spans[k][1], spans[k][2])]

\* remove_custom_sections with rstrip() in the place of strip().
remove_custom_sections_rstrip(content) ==
    rstrip(outside_spans(content, section_spans(content, 1, TRUE), 1, 1))

\* remove_custom_sections: pattern.sub('', content).strip().
remove_custom_sections(content) ==
    strip(outside_spans(content, section_spans(content, 1, TRUE), 1, 1))

(***************************************************************************)
(* The content process_dotfiles writes                                     *)
(***************************************************************************)
\* The section both scripts append: the payload between a fresh tag pair.
wrapped(payload) ==
    CUSTOM_START_TAG \o "\n" \o payload \o "\n" \o CUSTOM_END_TAG \o "\n"

\* app.py, the target exists: the stripped text outside the sections, the
\* existing sections that are not the bare tag pair, and the fresh section
\* around the stripped repository content.
app_new_content(src_content, existing_content) ==
    LET existing_sections == extract_custom_sections(existing_content)
        cleaned_sections ==
            SelectSeq(existing_sections,
                      LAMBDA section :
                          strip(section) # CUSTOM_START_TAG \o "\n" \o CUSTOM_END_TAG)
        removed == remove_custom_sections(existing_content)
        base == IF removed # "" /\ ~EndsWith(removed, "\n")
                THEN removed \o "\n" ELSE removed
    IN  base \o join("\n", cleaned_sections)
             \o (IF cleaned_sections # <<>> THEN "\n" ELSE "")
             \o wrapped(strip(src_content))

\* app_created_content without the strip() of the repository content.
app_created_content_unstripped(src_content) == wrapped(src_content)

\* app.py, the target does not exist.
app_created_content(src_content) == wrapped(strip(src_content))

\* setup.py, the target exists: the stripped text outside the sections, a
\* blank line, and the fresh section around the repository content as read.
\* (Both branches of the two tag tests write the same text.)
setup_new_content(src_content, existing_content) ==
    LET cleaned_content == remove_custom_sections(existing_content)
    IN  cleaned_content
        \o (IF cleaned_content # "" /\ ~EndsWith(cleaned_content, "\n")
            THEN "\n" ELSE "")
        \o "\n" \o CUSTOM_START_TAG \o "\n"
        \o src_content
        \o "\n" \o CUSTOM_END_TAG \o "\n"

\* setup.py, the target does not exist.
setup_created_content(src_content) == wrapped(src_content)

(***************************************************************************)
(* Bounds of the model                                                     *)
(***************************************************************************)
\* Number of pieces a file is built from initially, where the operations
\* are checked.
MaxPieces == 1
\* Number of pieces a home file is built from initially, where the merge is
\* checked.
MaxHomePieces == 2
\* Number of pieces a repository file is built from initially, where the
\* merge is checked.
MaxRepoPieces == 2
\* Number of invocations of the script in one behaviour.
MaxRuns == 2
\* The last second the clock reaches.
MaxClock == 1
\* Number of paths given to --update_repo on the command line.
MaxRepoArgs == 1
\* Number of pieces a text given to the section functions is built from.
MaxTextPieces == 5
\* Number of times remove_custom_sections is applied in turn.
MaxRemoves == 2

\* The number of deploy-then-capture cycles that are looked at.
MaxCycles == 2

(***************************************************************************)
(* The file system                                                         *)
(***************************************************************************)
\* The relative paths of the model: <dotfiles root>/<path> is the tracked
\* file, <home>/<path> its target.
Paths == {".zshrc", ".vimrc"}

NoFile == [exists |-> FALSE, content |-> ""]
File(c) == [exists |-> TRUE, content |-> c]

\* A target opened with open(dest_path, 'w') and not written yet: the file
\* it was before the open, and the text that is about to be written.
NoWrite == [open |-> FALSE, before |-> NoFile, content |-> ""]
Write(before, content) == [open |-> TRUE, before |-> before, content |-> content]

\* The texts made of at most n of the given pieces.
RECURSIVE Texts(_, _)
Texts(pieces, n) ==
    IF n = 0 THEN {""}
    ELSE LET shorter == Texts(pieces, n - 1)
         IN  shorter \cup {t \o piece : t \in shorter, piece \in pieces}

\* What a home file is built from: tag lines, line ends and user text.
HomePieces == {CUSTOM_START_TAG, CUSTOM_END_TAG, "\n", "x"}
\* What a repository file is built from.
RepoPieces == {"a", "\n"}
\* Repository texts whose last character is a vertical tab (\x0b), a
\* no-break space (\xa0) or an ogham space mark (U+1680), which str.strip()
\* removes as it removes "\n".
RepoSamples == {"a", "a ", "a "}

\* A backup directory is <root>/backups/<stamp> or
\* <root>/backups/_standalones/<stamp>; the stamp has the precision of a
\* second, so that it is the clock's value.
BackupDir(standalone, stamp) == <<standalone, stamp>>
NoDir == <<FALSE, -1>>

\* returncode of install_homebrew before `which brew` has exited, and outside
\* install_homebrew.
NoReturncode == -1

\* The orders in which rglob may list the files of a set.
Orders(S) ==
    {order \in [1..Cardinality(S) -> S] :
        \A i, j \in 1..Cardinality(S) : order[i] = order[j] => i = j}

\* The sequences of at most n paths.
RECURSIVE PathLists(_)
PathLists(n) ==
    IF n = 0 THEN {<<>>}
    ELSE LET shorter == PathLists(n - 1)
         IN  shorter \cup {Append(l, p) : l \in shorter, p \in Paths}

VARIABLES
    script,         \* which script runs: "app" (src/app.py) or "setup"
    denied,         \* the home files no open() is permitted on (it raises)
    readonly,       \* the home files that open() for writing raises on
    locked,         \* shutil.rmtree of the backup root raises on an entry
    run_limit,      \* the number of invocations that are looked at
    dotfiles,       \* the files under the dotfiles root, by relative path
    home,           \* the files under the home directory, by relative path
    backup_root,    \* <root>/backups exists
    backup_dirs,    \* the backup directories that exist
    backup_files,   \* the files in them: [dir, path, content]
    clock,          \* datetime.now(), in seconds
    phase,          \* where the running script is; "idle" when none runs
    standalone,     \* the argument of backup_dotfiles
    run_backup_dir, \* backup_dir of main: the directory of the full pipeline
    backup_dir,     \* backup_dir of backup_dotfiles
    todo,           \* the files the current loop has still to process
    copied,         \* process_dotfiles has copied the current file to the backup
    writing,        \* process_dotfiles has the current target open for writing
    homebrew,       \* what install_homebrew returned in this run
    returncode,     \* returncode of install_homebrew: what `which brew` exited with
    attempted,      \* the installation steps install_software has started
    running,        \* the external commands started and not yet waited for
    success_count,  \* success_count / updated_count of the current loop
    fail_count,     \* fail_count / failed_count of the current loop
    runs,           \* number of invocations so far
    hist,           \* per path, what deploy and capture did to it, in order
    trail,          \* a text and what remove_custom_sections made of it, in turn
    extracted,      \* what extract_custom_sections returned for the text
    argv,           \* the command line and the menu answer of an invocation
    operations      \* the operations main has called in the last invocation

env == <<script, denied, readonly, locked, run_limit>>
fs == <<dotfiles, home>>
bk == <<backup_root, backup_dirs, backup_files>>
sw == <<homebrew, returncode, attempted, running>>
ctl == <<phase, standalone, run_backup_dir, backup_dir, todo, copied, writing,
         sw, success_count, fail_count>>
io == <<trail, extracted, argv>>
tx == <<io, operations>>
machine == <<env, fs, bk, clock, ctl, runs, hist>>
vars == <<machine, tx>>

\* get_dotfiles_list: the regular files under the dotfiles root.
get_dotfiles_list == {p \in Paths : dotfiles[p].exists}

\* The file at <dir>/<path> of the backup tree.
BackupAt(dir, path) ==
    LET found == {f \in backup_files : f.dir = dir /\ f.path = path}
    IN  IF found = {} THEN NoFile
        ELSE File((CHOOSE f \in found : TRUE).content)

\* As CopiedTo, but the copy is left empty.
CopiedTo_empty(dir, path, content) ==
    {f \in backup_files : ~(f.dir = dir /\ f.path = path)}
    \cup {[dir |-> dir, path |-> path, content |-> ""]}

\* shutil.copy2 into the backup tree: <dir>/<path> becomes a copy of content.
CopiedTo(dir, path, content) ==
    {f \in backup_files : ~(f.dir = dir /\ f.path = path)}
    \cup {[dir |-> dir, path |-> path, content |-> content]}

\* shutil.copy2 of the home file at path to <dir>/<path> raises: the home
\* file cannot be opened, or it is read-only and <dir>/<path> exists already
\* (an earlier copy2 of the same second gave that copy the mode of the home
\* file, so that its open for writing raises).
copy2_raises(dir, path) ==
    \/ path \in denied
    \/ path \in readonly /\ BackupAt(dir, path).exists

(***************************************************************************)
(* main: the operation an invocation selects                               *)
(***************************************************************************)
\* The parsed command line: update_repo is None when given is FALSE.
Args ==
    {a \in [clear : BOOLEAN, backup : BOOLEAN, update_os : BOOLEAN,
            given : BOOLEAN, update_repo : PathLists(MaxRepoArgs)] :
        ~a.given => a.update_repo = <<>>}

\* The choices display_menu returns.
Choices == 1..6

\* No invocation is looked at on its own.
NoArgv == <<>>

\* main of app.py: the flags in the order clear, backup, update_repo,
\* update_os; the menu when no flag is given.
app_main(args, choice) ==
    IF args.update_os \/ args.backup \/ args.clear \/ args.given
    THEN IF args.clear THEN "clear"
         ELSE IF args.backup THEN "backup"
         ELSE IF args.given THEN "update_repo"
         ELSE "update_os"
    ELSE CASE choice = 1 -> "update_os"
           [] choice = 2 -> "backup"
           [] choice = 3 -> "update_repo"
           [] choice = 4 -> "full"
           [] choice = 5 -> "clear"
           [] OTHER -> "exit"

\* As setup_main, but --update_os is not looked at.
setup_main_no_update_os(args) ==
    IF args.clear THEN "clear"
    ELSE IF args.backup THEN "backup"
    ELSE IF args.given THEN "update_repo"
    ELSE "full"

\* main of setup.py: the same flags, and the full pipeline without any.
setup_main(args) ==
    IF args.clear THEN "clear"
    ELSE IF args.backup THEN "backup"
    ELSE IF args.given THEN "update_repo"
    ELSE IF args.update_os THEN "update_os"
    ELSE "full"

main(args, choice) ==
    IF script = "app" THEN app_main(args, choice) ELSE setup_main(args)

\* An invocation whose command line and menu answer make main take the
\* branch of op can start: the command line is argv when the invocations of
\* one command line are looked at, any command line otherwise.
Selects(op) ==
    /\ phase = "idle"
    /\ runs < run_limit
    /\ IF argv = NoArgv
       THEN op \in {main(args, choice) : args \in Args, choice \in Choices}
       ELSE op = main(argv.args, argv.choice)

\* The script ends: its variables are gone with the process (every command
\* it started has been waited for, or goes on without it).
Exit ==
    /\ phase' = "idle"
    /\ standalone' = FALSE
    /\ run_backup_dir' = NoDir
    /\ backup_dir' = NoDir
    /\ todo' = <<>>
    /\ copied' = FALSE
    /\ writing' = NoWrite
    /\ homebrew' = "unknown"
    /\ returncode' = NoReturncode
    /\ attempted' = {}
    /\ success_count' = 0
    /\ fail_count' = 0

(***************************************************************************)
(* What happened to a path                                                 *)
(***************************************************************************)
\* One entry of hist: op is "deploy" (process_dotfiles), "update_os" or
\* "capture" (update_repo_dotfiles); src is the text read, before and after
\* the file written (the home file, or the repository file for a capture);
\* backup is the file found at the path in the run's backup directory when
\* the write happened.
Event(op, src, before, after, backup) ==
    [op |-> op, src |-> src, before |-> before, after |-> after,
     backup |-> backup]

Record(path, event) == [hist EXCEPT ![path] = Append(@, event)]

(***************************************************************************)
(* Initial states                                                          *)
(***************************************************************************)
\* The control state of a machine on which no script runs.
InitControl ==
    /\ backup_root = FALSE
    /\ backup_dirs = {}
    /\ backup_files = {}
    /\ clock = 0
    /\ phase = "idle"
    /\ standalone = FALSE
    /\ run_backup_dir = NoDir
    /\ backup_dir = NoDir
    /\ todo = <<>>
    /\ copied = FALSE
    /\ writing = NoWrite
    /\ homebrew = "unknown"
    /\ returncode = NoReturncode
    /\ attempted = {}
    /\ running = {}
    /\ success_count = 0
    /\ fail_count = 0
    /\ runs = 0
    /\ hist = [p \in Paths |-> <<>>]

\* The control state when MaxRuns invocations are looked at.
InitRuns ==
    /\ InitControl
    /\ run_limit = MaxRuns

\* Home files of several kinds: none, user text only, one custom section
\* between user text, two custom sections with user text around them.
HomeSamples ==
    {NoFile,
     File("x\n"),
     File("x\n" \o wrapped("a") \o "y\n"),
     File("x\n" \o wrapped("a") \o "y\n" \o wrapped("b") \o "z\n")}

\* One tracked file, its repository content one of repo_texts, its home
\* target one of home_files; either script; every file can be opened.
InitFiles(home_files, repo_texts) ==
    /\ script \in {"app", "setup"}
    /\ denied = {}
    /\ readonly = {}
    /\ \E src \in repo_texts :
           dotfiles = [p \in Paths |->
                          IF p = ".zshrc" THEN File(src) ELSE NoFile]
    /\ \E target \in home_files :
           home = [p \in Paths |-> IF p = ".zshrc" THEN target ELSE NoFile]

\* The initial states of the operations: a short repository file, the home
\* target one of the samples.
Init ==
    /\ InitFiles(HomeSamples, Texts(RepoPieces, MaxPieces))
    /\ locked = FALSE
    /\ InitRuns
    /\ trail = <<>>
    /\ extracted = <<>>
    /\ argv = NoArgv
    /\ operations = <<>>

\* The initial states of the merge: longer files, and the repository texts
\* that end in white space other than a blank or a line end.
InitDeploy ==
    /\ InitFiles({NoFile} \cup {File(t) : t \in Texts(HomePieces, MaxHomePieces)},
                 Texts(RepoPieces, MaxRepoPieces) \cup RepoSamples)
    /\ locked = FALSE
    /\ InitRuns
    /\ trail = <<>>
    /\ extracted = <<>>
    /\ argv = NoArgv
    /\ operations = <<>>

\* The initial states of backup and capture: two relative paths, each
\* tracked or not, the home file of the first any short text, that of the
\* second one of the samples; any of the home files may refuse to be opened.
InitTwoFiles ==
    /\ script \in {"app", "setup"}
    /\ \E tracked \in SUBSET Paths :
           dotfiles = [p \in Paths |-> IF p \in tracked THEN File("a") ELSE NoFile]
    /\ \E first \in {NoFile} \cup {File(t) : t \in Texts(HomePieces, MaxPieces)},
          second \in HomeSamples :
           home = [p \in Paths |-> IF p = ".zshrc" THEN first ELSE second]
    /\ denied \in SUBSET {p \in Paths : home[p].exists}
    /\ readonly = {}
    /\ locked = FALSE
    /\ InitRuns
    /\ trail = <<>>
    /\ extracted = <<>>
    /\ argv = NoArgv
    /\ operations = <<>>

(***************************************************************************)
(* Backup directories                                                      *)
(***************************************************************************)
\* As create_backup_dir, but is_standalone is not looked at.
create_backup_dir_flat(is_standalone) == BackupDir(FALSE, clock)

\* create_backup_dir: names the directory after the current second and makes
\* it (mkdir with parents and exist_ok: an existing directory is reused).
create_backup_dir(is_standalone) == BackupDir(is_standalone, clock)

\* As ClearBackups, but the standalone backups are kept.
ClearBackups_runs ==
    /\ backup_root' = (\E dir \in backup_dirs : dir[1])
    /\ backup_dirs' = {dir \in backup_dirs : dir[1]}
    /\ backup_files' = {f \in backup_files : f.dir[1]}

\* clear_backups.  Without a backup root it prints a message only.  With
\* one, shutil.rmtree removes the tree; when rmtree raises, the except
\* clause prints the failure and clear_backups returns: rmtree has stopped
\* at the first entry it could not remove, so that the root is still there,
\* of the backup directories those in kept, and of the files of one of
\* these (the directory rmtree was emptying) those in lost are gone.
ClearBackups ==
    IF ~backup_root
    THEN UNCHANGED bk
    ELSE IF ~locked
    THEN /\ backup_root' = FALSE
         /\ backup_dirs' = {}
         /\ backup_files' = {}
    ELSE \E kept \in SUBSET backup_dirs, partial \in backup_dirs \cup {NoDir} :
             \E lost \in SUBSET {f \in backup_files : f.dir = partial} :
                 /\ partial \in kept \cup {NoDir}
                 /\ backup_root' = TRUE
                 /\ backup_dirs' = kept
                 /\ backup_files' =
                        {f \in backup_files : f.dir \in kept} \ lost

(***************************************************************************)
(* main                                                                    *)
(***************************************************************************)
\* --clear or menu choice 5.
MainClear ==
    /\ Selects("clear")
    /\ ClearBackups
    /\ operations' = <<"clear">>
    /\ runs' = runs + 1
    /\ UNCHANGED <<io, env, fs, clock, ctl, hist>>

\* Menu choice 6.
MainExit ==
    /\ Selects("exit")
    /\ operations' = <<>>
    /\ runs' = runs + 1
    /\ UNCHANGED <<io, env, fs, bk, clock, ctl, hist>>

\* --backup or menu choice 2: backup_dotfiles(standalone=True).
MainBackup ==
    /\ Selects("backup")
    /\ phase' = "backup_dotfiles"
    /\ standalone' = TRUE
    /\ run_backup_dir' = NoDir
    /\ operations' = <<"backup">>
    /\ runs' = runs + 1
    /\ UNCHANGED <<io, env, sw, writing, fs, bk, clock, backup_dir, todo, copied,
                   success_count, fail_count, hist>>

\* The full pipeline (menu choice 4 of app.py, no flag of setup.py) up to the
\* call of backup_dotfiles: main creates its backup directory.
MainFull ==
    /\ Selects("full")
    /\ run_backup_dir' = create_backup_dir(FALSE)
    /\ backup_root' = TRUE
    /\ backup_dirs' = backup_dirs \cup {create_backup_dir(FALSE)}
    /\ phase' = "backup_dotfiles"
    /\ standalone' = FALSE
    /\ operations' = <<"full">>
    /\ runs' = runs + 1
    /\ UNCHANGED <<io, env, sw, writing, fs, backup_files, clock, backup_dir, todo, copied,
                   success_count, fail_count, hist>>

\* --update_os or menu choice 1: update_os_dotfiles up to its loop.
MainUpdateOs ==
    /\ Selects("update_os")
    /\ phase' = "update_os"
    /\ todo' \in Orders(get_dotfiles_list)
    /\ success_count' = 0
    /\ fail_count' = 0
    /\ run_backup_dir' = NoDir
    /\ operations' = <<"update_os">>
    /\ runs' = runs + 1
    /\ UNCHANGED <<io, env, sw, writing, fs, bk, clock, standalone, backup_dir, copied, hist>>

\* --update_repo [paths] or menu choice 3: update_repo_dotfiles up to its
\* loop; without paths the work list is every tracked file.
MainUpdateRepo ==
    /\ Selects("update_repo")
    /\ \E given \in {IF args.given THEN args.update_repo ELSE <<>> :
                         args \in {a \in Args :
                                      /\ argv # NoArgv => a = argv.args
                                      /\ \E choice \in Choices :
                                             main(a, choice) = "update_repo"}} :
           IF given = <<>>
           THEN todo' \in Orders(get_dotfiles_list)
           ELSE todo' = given
    /\ phase' = "update_repo"
    /\ success_count' = 0
    /\ fail_count' = 0
    /\ run_backup_dir' = NoDir
    /\ operations' = <<"update_repo">>
    /\ runs' = runs + 1
    /\ UNCHANGED <<io, env, sw, writing, fs, bk, clock, standalone, backup_dir, copied, hist>>

(***************************************************************************)
(* backup_dotfiles                                                         *)
(***************************************************************************)
\* backup_dotfiles up to its loop: it creates a backup directory of its own.
BackupBegin ==
    /\ phase = "backup_dotfiles"
    /\ backup_dir' = create_backup_dir(standalone)
    /\ backup_root' = TRUE
    /\ backup_dirs' = backup_dirs \cup {create_backup_dir(standalone)}
    /\ todo' \in Orders(get_dotfiles_list)
    /\ success_count' = 0
    /\ fail_count' = 0
    /\ phase' = "backup"
    /\ UNCHANGED <<tx, env, sw, writing, fs, backup_files, clock, standalone,
                   run_backup_dir, copied, runs, hist>>

\* As BackupFile, but the home file is moved into the backup directory.
BackupFile_move ==
    /\ phase = "backup"
    /\ todo # <<>>
    /\ LET rel_path == Head(todo)
       IN  IF home[rel_path].exists /\ ~copy2_raises(backup_dir, rel_path)
           THEN /\ backup_files' =
                       CopiedTo(backup_dir, rel_path, home[rel_path].content)
                /\ home' = [home EXCEPT ![rel_path] = NoFile]
                /\ backup_dirs' = backup_dirs \cup {backup_dir}
                /\ backup_root' = TRUE
                /\ success_count' = success_count + 1
                /\ UNCHANGED fail_count
           ELSE /\ fail_count' = fail_count + 1
                /\ UNCHANGED <<bk, home, success_count>>
    /\ todo' = Tail(todo)
    /\ UNCHANGED <<tx, env, sw, writing, dotfiles, clock, phase, standalone,
                   run_backup_dir, backup_dir, copied, runs, hist>>

\* One iteration of the loop of backup_dotfiles: the home file is copied
\* when it exists; a missing one and one the copy raises on (it cannot be
\* read, or it is read-only and the directory holds a copy of it from the
\* same second) are failures.
BackupFile ==
    /\ phase = "backup"
    /\ todo # <<>>
    /\ LET rel_path == Head(todo)
       IN  IF home[rel_path].exists /\ ~copy2_raises(backup_dir, rel_path)
           THEN /\ backup_files' =
                       CopiedTo(backup_dir, rel_path, home[rel_path].content)
                /\ backup_dirs' = backup_dirs \cup {backup_dir}
                /\ backup_root' = TRUE
                /\ success_count' = success_count + 1
                /\ UNCHANGED fail_count
           ELSE \* the source is not found, or shutil.copy2 raises
                /\ fail_count' = fail_count + 1
                /\ UNCHANGED <<bk, success_count>>
    /\ todo' = Tail(todo)
    /\ UNCHANGED <<tx, env, sw, writing, fs, clock, phase, standalone, run_backup_dir,
                   backup_dir, copied, runs, hist>>

\* backup_dotfiles returns: to the end of the script when standalone, to
\* install_software in the full pipeline.
BackupEnd ==
    /\ phase = "backup"
    /\ todo = <<>>
    /\ IF standalone
       THEN Exit
       ELSE /\ phase' = "install_software"
            /\ UNCHANGED <<standalone, run_backup_dir, backup_dir, todo,
                           copied, writing, homebrew, returncode, attempted,
                           success_count, fail_count>>
    /\ UNCHANGED <<tx, env, fs, bk, clock, running, runs, hist>>

(***************************************************************************)
(* The full pipeline after the backup                                      *)
(***************************************************************************)
\* process_dotfiles up to its loop.
ProcessDotfilesBegin ==
    /\ phase' = "process_dotfiles"
    /\ todo' \in Orders(get_dotfiles_list)
    /\ success_count' = 0
    /\ fail_count' = 0
    /\ copied' = FALSE
    /\ writing' = NoWrite

\* install_homebrew starts a command with create_subprocess_exec: `which
\* brew` first (by run_command), and, when that one has been waited for,
\* brew update (brew was found) or the installation script (it was not).
HomebrewCommand ==
    /\ phase = "install_software"
    /\ "homebrew" \notin running
    /\ running' = running \cup {"homebrew"}
    /\ UNCHANGED <<tx, env, fs, bk, clock, phase, standalone, run_backup_dir,
                   backup_dir, todo, copied, writing, success_count,
                   fail_count, homebrew, returncode, attempted, runs, hist>>

\* As InstallHomebrew, but install_software goes on after a failure.
InstallHomebrew_ignored ==
    /\ phase = "install_software"
    /\ "homebrew" \in running
    /\ running' = running \ {"homebrew"}
    /\ IF returncode = NoReturncode
       THEN /\ returncode' \in {0, 1}
            /\ UNCHANGED <<phase, homebrew>>
       ELSE /\ returncode' = NoReturncode
            /\ \E process_returncode \in {0, 1} :
                   homebrew' = IF process_returncode = 0 THEN "ok" ELSE "failed"
            /\ phase' = "install_packages"
    /\ UNCHANGED <<tx, env, fs, bk, clock, standalone, run_backup_dir,
                   backup_dir, todo, copied, writing, success_count,
                   fail_count, attempted, runs, hist>>

\* install_homebrew has waited for the command in flight.  For `which brew`
\* (process.communicate of run_command) its exit code is kept in returncode
\* and install_homebrew goes on.  For brew update or the installation script
\* (process.wait) install_homebrew returns whether it exited with 0: when it
\* did not, install_software returns at once and process_dotfiles follows.
InstallHomebrew ==
    /\ phase = "install_software"
    /\ "homebrew" \in running
    /\ running' = running \ {"homebrew"}
    /\ IF returncode = NoReturncode
       THEN /\ returncode' \in {0, 1}
            /\ UNCHANGED <<phase, homebrew, todo, copied, writing,
                           success_count, fail_count>>
       ELSE /\ returncode' = NoReturncode
            /\ \E process_returncode \in {0, 1} :
                   IF process_returncode = 0
                   THEN /\ homebrew' = "ok"
                        /\ phase' = "install_packages"
                        /\ UNCHANGED <<todo, copied, writing, success_count,
                                       fail_count>>
                   ELSE /\ homebrew' = "failed"
                        /\ ProcessDotfilesBegin
    /\ UNCHANGED <<tx, env, fs, bk, clock, standalone, run_backup_dir,
                   backup_dir, attempted, runs, hist>>

\* The rest of install_software: the font is downloaded, then every
\* application is upgraded or installed (with its post-install hooks),
\* whatever the outcome of each, by commands that run_command starts one
\* after the other; this is the start of one of them.  The brew commands
\* are started outside any try: when brew is not on the PATH
\* (install_homebrew returns True as soon as the installation script exits
\* 0, whether or not it installed anything), create_subprocess_exec raises
\* FileNotFoundError out of install_software and main, and the script ends
\* before process_dotfiles.
PackageCommand ==
    /\ phase = "install_packages"
    /\ "package" \notin running
    /\ \E brew_found \in BOOLEAN :
           IF brew_found
           THEN /\ running' = running \cup {"package"}
                /\ attempted' = {"font", "packages"}
                /\ UNCHANGED <<phase, standalone, run_backup_dir, backup_dir,
                               todo, copied, writing, success_count,
                               fail_count, homebrew, returncode>>
           ELSE /\ Exit
                /\ UNCHANGED running
    /\ UNCHANGED <<tx, env, fs, bk, clock, runs, hist>>

\* As InstallPackages, but install_software returns while its last command
\* is still running.
InstallPackages_unawaited ==
    /\ phase = "install_packages"
    /\ "package" \in running
    /\ \E outcome \in {"next", "return", "raise"} :
           CASE outcome = "next" ->
                    /\ running' = running \ {"package"}
                    /\ UNCHANGED <<phase, standalone, run_backup_dir,
                                   backup_dir, todo, copied, writing,
                                   homebrew, returncode, attempted,
                                   success_count, fail_count>>
             [] outcome = "return" ->
                    /\ ProcessDotfilesBegin
                    /\ UNCHANGED <<standalone, run_backup_dir, backup_dir, sw>>
             [] outcome = "raise" ->
                    /\ Exit
                    /\ running' = running \ {"package"}
    /\ UNCHANGED <<tx, env, fs, bk, clock, runs, hist>>

\* install_software has waited for the command in flight (process.communicate
\* of run_command); no dotfile was touched.  Then one of three: another
\* command follows ("next": install_software is where it was, with no
\* command in flight); it was the last one, install_software returns and
\* process_dotfiles follows ("return"); or the next one is a brew command
\* and brew is not on the PATH ("raise"): started outside any try (brew list
\* of check_brew_package, brew install, brew upgrade), it raises
\* FileNotFoundError out of install_software and main, and the script ends:
\* process_dotfiles and cleanup_and_finalize never run.
InstallPackages ==
    /\ phase = "install_packages"
    /\ "package" \in running
    /\ running' = running \ {"package"}
    /\ \E outcome \in {"next", "return", "raise"} :
           CASE outcome = "next" ->
                    UNCHANGED <<phase, standalone, run_backup_dir,
                                backup_dir, todo, copied, writing, homebrew,
                                returncode, attempted, success_count,
                                fail_count>>
             [] outcome = "return" ->
                    /\ ProcessDotfilesBegin
                    /\ UNCHANGED <<standalone, run_backup_dir, backup_dir,
                                   homebrew, returncode, attempted>>
             [] outcome = "raise" -> Exit
    /\ UNCHANGED <<tx, env, fs, bk, clock, runs, hist>>

\* The content process_dotfiles writes over an existing target.
new_content(src_content, existing_content) ==
    IF script = "app" THEN app_new_content(src_content, existing_content)
    ELSE setup_new_content(src_content, existing_content)

\* The content process_dotfiles writes when the target does not exist.
created_content(src_content) ==
    IF script = "app" THEN app_created_content(src_content)
    ELSE setup_created_content(src_content)

\* As DeployBackup, but a copy that raises is passed over and the deploy of
\* the file goes on.
DeployBackup_passed ==
    /\ phase = "process_dotfiles"
    /\ todo # <<>>
    /\ ~copied
    /\ ~writing.open
    /\ home[Head(todo)].exists
    /\ backup_dirs' = backup_dirs \cup {run_backup_dir}
    /\ backup_root' = TRUE
    /\ IF copy2_raises(run_backup_dir, Head(todo))
       THEN UNCHANGED backup_files
       ELSE backup_files' =
                CopiedTo(run_backup_dir, Head(todo), home[Head(todo)].content)
    /\ copied' = TRUE
    /\ UNCHANGED <<tx, env, sw, writing, fs, clock, phase, standalone,
                   run_backup_dir, backup_dir, success_count, fail_count,
                   todo, runs, hist>>

\* process_dotfiles, the target exists: the copy of the target into the
\* backup directory of main.  When shutil.copy2 raises (the target cannot be
\* read, or it is read-only and backup_dotfiles has copied it into the same
\* directory), the file is a failure and the loop goes on with the next one.
DeployBackup ==
    /\ phase = "process_dotfiles"
    /\ todo # <<>>
    /\ ~copied
    /\ ~writing.open
    /\ home[Head(todo)].exists
    /\ backup_dirs' = backup_dirs \cup {run_backup_dir}
    /\ backup_root' = TRUE
    /\ IF copy2_raises(run_backup_dir, Head(todo))
       THEN /\ fail_count' = fail_count + 1
            /\ todo' = Tail(todo)
            /\ UNCHANGED <<backup_files, copied>>
       ELSE /\ backup_files' =
                   CopiedTo(run_backup_dir, Head(todo), home[Head(todo)].content)
            /\ copied' = TRUE
            /\ UNCHANGED <<fail_count, todo>>
    /\ UNCHANGED <<tx, env, sw, writing, fs, clock, phase, standalone,
                   run_backup_dir, backup_dir, success_count, runs, hist>>

\* process_dotfiles, open(dest_path, 'w'): an existing target has been copied
\* and read, and the new content is prepared; the open truncates the target,
\* or creates it empty when it does not exist.  When the open raises (the
\* target is read-only), the file is a failure and the loop goes on with the
\* next one.
DeployOpen ==
    /\ phase = "process_dotfiles"
    /\ todo # <<>>
    /\ ~writing.open
    /\ copied \/ ~home[Head(todo)].exists
    /\ LET rel_path == Head(todo)
           src_content == dotfiles[rel_path].content
       IN  IF home[rel_path].exists /\ rel_path \in readonly
           THEN /\ fail_count' = fail_count + 1
                /\ todo' = Tail(todo)
                /\ copied' = FALSE
                /\ UNCHANGED <<writing, home>>
           ELSE /\ writing' =
                       Write(home[rel_path],
                             IF home[rel_path].exists
                             THEN new_content(src_content,
                                              home[rel_path].content)
                             ELSE created_content(src_content))
                /\ home' = [home EXCEPT ![rel_path] = File("")]
                /\ UNCHANGED <<fail_count, todo, copied>>
    /\ UNCHANGED <<tx, env, sw, dotfiles, bk, clock, phase, standalone,
                   run_backup_dir, backup_dir, success_count, runs, hist>>

\* process_dotfiles, dest_file.write and the close of the file: the target
\* gets its new content and the file is a success.
DeployWrite ==
    /\ phase = "process_dotfiles"
    /\ todo # <<>>
    /\ writing.open
    /\ LET rel_path == Head(todo)
           written == File(writing.content)
       IN  /\ home' = [home EXCEPT ![rel_path] = written]
           /\ hist' = Record(rel_path,
                             Event("deploy", dotfiles[rel_path].content,
                                   writing.before, written,
                                   IF writing.before.exists
                                   THEN BackupAt(run_backup_dir, rel_path)
                                   ELSE NoFile))
    /\ writing' = NoWrite
    /\ copied' = FALSE
    /\ success_count' = success_count + 1
    /\ todo' = Tail(todo)
    /\ UNCHANGED <<tx, env, sw, dotfiles, bk, clock, phase, standalone,
                   run_backup_dir, backup_dir, fail_count, runs>>

\* process_dotfiles returns; cleanup_and_finalize follows.
DeployEnd ==
    /\ phase = "process_dotfiles"
    /\ todo = <<>>
    /\ phase' = "cleanup_and_finalize"
    /\ UNCHANGED <<tx, env, sw, writing, fs, bk, clock, standalone, run_backup_dir,
                   backup_dir, todo, copied, success_count, fail_count,
                   runs, hist>>

\* cleanup_and_finalize starts a command (chsh by subprocess.run when zsh is
\* at one of its locations, brew cleanup by run_command, and in app.py brew
\* list for each application found at none of its locations), one after the
\* other; this is the start of one of them.
CleanupCommand ==
    /\ phase = "cleanup_and_finalize"
    /\ "cleanup" \notin running
    /\ running' = running \cup {"cleanup"}
    /\ UNCHANGED <<tx, env, fs, bk, clock, phase, standalone, run_backup_dir,
                   backup_dir, todo, copied, writing, success_count,
                   fail_count, homebrew, returncode, attempted, runs, hist>>

\* cleanup_and_finalize goes on from where it is: no dotfile is touched.
\* With a command in flight it has waited for it, and another command
\* follows ("next").  After its last command, or without any when brew is
\* missing and zsh is not found (the raise of brew cleanup is caught), it
\* returns, the summary is printed and the final question follows
\* ("return"); or, in app.py, the brew list of the verification, which is
\* run outside any try, raises because Homebrew could not be installed and
\* an application is at none of its locations: the script ends without
\* summary and without question ("raise").
CleanupAndFinalize ==
    /\ phase = "cleanup_and_finalize"
    /\ running' = running \ {"cleanup"}
    /\ \E outcome \in {"next", "return", "raise"} :
           CASE outcome = "next" ->
                    /\ "cleanup" \in running
                    /\ UNCHANGED <<phase, standalone, run_backup_dir,
                                   backup_dir, todo, copied, writing,
                                   homebrew, returncode, attempted,
                                   success_count, fail_count>>
             [] outcome = "return" ->
                    /\ "cleanup" \in running \/ homebrew = "failed"
                    /\ phase' = "prompt"
                    /\ UNCHANGED <<standalone, run_backup_dir, backup_dir,
                                   todo, copied, writing, homebrew,
                                   returncode, attempted, success_count,
                                   fail_count>>
             [] outcome = "raise" ->
                    /\ script = "app"
                    /\ homebrew = "failed"
                    /\ Exit
    /\ UNCHANGED <<tx, env, fs, bk, clock, runs, hist>>

\* The final question of the full pipeline: on "y" or "yes" main calls
\* clear_backups, on any other answer it names the command that clears; main
\* returns.
Prompt ==
    /\ phase = "prompt"
    /\ \E clear_backups_input \in {"y", "n"} :
           IF clear_backups_input = "y"
           THEN /\ ClearBackups
                /\ operations' = Append(operations, "clear")
           ELSE UNCHANGED <<bk, operations>>
    /\ Exit
    /\ UNCHANGED <<io, env, fs, clock, running, runs, hist>>

(***************************************************************************)
(* update_os_dotfiles                                                      *)
(***************************************************************************)
\* One iteration of the loop: shutil.copy2 of the repository file onto the
\* target; a target that cannot be opened is a failure.
UpdateOsFile ==
    /\ phase = "update_os"
    /\ todo # <<>>
    /\ LET rel_path == Head(todo)
           written == File(dotfiles[rel_path].content)
       IN  IF home[rel_path].exists /\ rel_path \in denied \cup readonly
           THEN /\ fail_count' = fail_count + 1
                /\ UNCHANGED <<home, hist, success_count>>
           ELSE /\ home' = [home EXCEPT ![rel_path] = written]
                /\ hist' = Record(rel_path,
                                  Event("update_os", dotfiles[rel_path].content,
                                        home[rel_path], written,
                                        BackupAt(run_backup_dir, rel_path)))
                /\ success_count' = success_count + 1
                /\ UNCHANGED fail_count
    /\ todo' = Tail(todo)
    /\ UNCHANGED <<tx, env, sw, writing, dotfiles, bk, clock, phase, standalone,
                   run_backup_dir, backup_dir, copied, runs>>

UpdateOsEnd ==
    /\ phase = "update_os"
    /\ todo = <<>>
    /\ Exit
    /\ UNCHANGED <<tx, env, fs, bk, clock, running, runs, hist>>

(***************************************************************************)
(* update_repo_dotfiles                                                    *)
(***************************************************************************)
\* As captured, but the sections follow each other line by line.
captured_newline(custom_sections) == join("\n", custom_sections)

\* The text update_repo_dotfiles writes to the repository file.
captured(custom_sections) == join("\n\n", custom_sections)

\* As capturable, but a home file that cannot be read counts as read.
capturable_unread(dotfile) ==
    /\ home[dotfile].exists
    /\ extract_custom_sections(home[dotfile].content) # <<>>

\* update_repo_dotfiles gets something to write for the path: the home file
\* exists, it is read without a raise and it holds a custom section.
capturable(dotfile) ==
    /\ home[dotfile].exists
    /\ dotfile \notin denied
    /\ extract_custom_sections(home[dotfile].content) # <<>>

\* As UpdateRepoFile, but the first failure ends the loop.
UpdateRepoFile_abort ==
    /\ phase = "update_repo"
    /\ todo # <<>>
    /\ LET dotfile == Head(todo)
           content == home[dotfile].content
           custom_sections == extract_custom_sections(content)
           written == File(captured(custom_sections))
       IN  IF capturable(dotfile)
           THEN /\ dotfiles' = [dotfiles EXCEPT ![dotfile] = written]
                /\ hist' = Record(dotfile,
                                  Event("capture", content, dotfiles[dotfile],
                                        written, NoFile))
                /\ success_count' = success_count + 1
                /\ todo' = Tail(todo)
                /\ UNCHANGED fail_count
           ELSE /\ fail_count' = fail_count + 1
                /\ todo' = <<>>
                /\ UNCHANGED <<dotfiles, hist, success_count>>
    /\ UNCHANGED <<tx, env, sw, writing, home, bk, clock, phase, standalone,
                   run_backup_dir, backup_dir, copied, runs>>

\* One iteration of the loop: the sections of the home file replace the
\* repository file at the same relative path; a missing home file, one the
\* read raises on and one without a section are failures.
UpdateRepoFile ==
    /\ phase = "update_repo"
    /\ todo # <<>>
    /\ LET dotfile == Head(todo)
           content == home[dotfile].content
           custom_sections == extract_custom_sections(content)
           written == File(captured(custom_sections))
       IN  IF capturable(dotfile)
           THEN /\ dotfiles' = [dotfiles EXCEPT ![dotfile] = written]
                /\ hist' = Record(dotfile,
                                  Event("capture", content, dotfiles[dotfile],
                                        written, NoFile))
                /\ success_count' = success_count + 1
                /\ UNCHANGED fail_count
           ELSE /\ fail_count' = fail_count + 1
                /\ UNCHANGED <<dotfiles, hist, success_count>>
    /\ todo' = Tail(todo)
    /\ UNCHANGED <<tx, env, sw, writing, home, bk, clock, phase, standalone,
                   run_backup_dir, backup_dir, copied, runs>>

UpdateRepoEnd ==
    /\ phase = "update_repo"
    /\ todo = <<>>
    /\ Exit
    /\ UNCHANGED <<tx, env, fs, bk, clock, running, runs, hist>>

(***************************************************************************)
(* Time                                                                    *)
(***************************************************************************)
\* A second passes.  The clock is read by create_backup_dir only, which names
\* a directory after it: a second in which no directory was made differs in
\* nothing from the one before it, and a second that passes while the loops
\* run is one that passes before the next call of create_backup_dir (by main
\* when a full pipeline starts, by backup_dotfiles when it starts).
Tick ==
    /\ clock < MaxClock
    /\ phase \in {"idle", "backup_dotfiles"}
    /\ \E dir \in backup_dirs : dir[2] = clock
    /\ clock' = clock + 1
    /\ UNCHANGED <<tx, env, fs, bk, ctl, runs, hist>>

Next ==
    \/ MainClear
    \/ MainExit
    \/ MainBackup
    \/ MainFull
    \/ MainUpdateOs
    \/ MainUpdateRepo
    \/ BackupBegin
    \/ BackupFile
    \/ BackupEnd
    \/ HomebrewCommand
    \/ InstallHomebrew
    \/ PackageCommand
    \/ InstallPackages
    \/ DeployBackup
    \/ DeployOpen
    \/ DeployWrite
    \/ DeployEnd
    \/ CleanupCommand
    \/ CleanupAndFinalize
    \/ Prompt
    \/ UpdateOsFile
    \/ UpdateOsEnd
    \/ UpdateRepoFile
    \/ UpdateRepoEnd
    \/ Tick

Spec == Init /\ [][Next]_vars

\* The merge: the full pipeline, which reaches process_dotfiles, and the
\* capture, which feeds the repository from its result.  The clock stands
\* still, the merge does not read it.
NextDeploy ==
    \/ MainFull
    \/ MainUpdateRepo
    \/ BackupBegin
    \/ BackupFile
    \/ BackupEnd
    \/ HomebrewCommand
    \/ InstallHomebrew
    \/ PackageCommand
    \/ InstallPackages
    \/ DeployBackup
    \/ DeployOpen
    \/ DeployWrite
    \/ DeployEnd
    \/ CleanupCommand
    \/ CleanupAndFinalize
    \/ Prompt
    \/ UpdateRepoFile
    \/ UpdateRepoEnd

SpecDeploy == InitDeploy /\ [][NextDeploy]_vars

\* Backup and capture on their own, on two paths.
NextTwoFiles ==
    \/ MainBackup
    \/ MainUpdateRepo
    \/ BackupBegin
    \/ BackupFile
    \/ BackupEnd
    \/ UpdateRepoFile
    \/ UpdateRepoEnd

SpecTwoFiles == InitTwoFiles /\ [][NextTwoFiles]_vars

\* The initial states of the cycles: one tracked file, its repository
\* content any short text, its home target one of the samples; either
\* script; every file can be opened; room for MaxCycles cycles.
InitCycle ==
    /\ script \in {"app", "setup"}
    /\ denied = {}
    /\ readonly = {}
    /\ locked = FALSE
    /\ \E src \in Texts(RepoPieces, MaxPieces) :
           dotfiles = [p \in Paths |->
                          IF p = ".zshrc" THEN File(src) ELSE NoFile]
    /\ \E target \in HomeSamples :
           home = [p \in Paths |-> IF p = ".zshrc" THEN target ELSE NoFile]
    /\ InitControl
    /\ run_limit = 2 * MaxCycles
    /\ trail = <<>>
    /\ extracted = <<>>
    /\ argv = NoArgv
    /\ operations = <<>>

\* Deploy and capture in turn, nothing else in between: the full pipeline is
\* the first, third, ... invocation, the capture the second, fourth, ...
NextCycle ==
    \/ (runs % 2 = 0 /\ MainFull)
    \/ (runs % 2 = 1 /\ MainUpdateRepo)
    \/ BackupBegin
    \/ BackupFile
    \/ BackupEnd
    \/ HomebrewCommand
    \/ InstallHomebrew
    \/ PackageCommand
    \/ InstallPackages
    \/ DeployBackup
    \/ DeployOpen
    \/ DeployWrite
    \/ DeployEnd
    \/ CleanupCommand
    \/ CleanupAndFinalize
    \/ Prompt
    \/ UpdateRepoFile
    \/ UpdateRepoEnd

SpecCycle == InitCycle /\ [][NextCycle]_vars

\* The initial states of the failures of single files: two tracked files,
\* the home file of each one of the samples; a home file may refuse every
\* open, or the open for writing only.
InitFaults ==
    /\ script \in {"app", "setup"}
    /\ dotfiles = [p \in Paths |-> File("a")]
    /\ \E first \in HomeSamples, second \in HomeSamples :
           home = [p \in Paths |-> IF p = ".zshrc" THEN first ELSE second]
    /\ denied \in SUBSET {p \in Paths : home[p].exists}
    /\ readonly \in SUBSET {p \in Paths : home[p].exists /\ p \notin denied}
    /\ locked = FALSE
    /\ InitRuns
    /\ trail = <<>>
    /\ extracted = <<>>
    /\ argv = NoArgv
    /\ operations = <<>>

\* The loops over the work list with files that fail: the full pipeline and
\* the capture; a second may pass between the directory main makes and the
\* one backup_dotfiles makes.
NextFaults ==
    \/ MainFull
    \/ MainUpdateRepo
    \/ BackupBegin
    \/ BackupFile
    \/ BackupEnd
    \/ HomebrewCommand
    \/ InstallHomebrew
    \/ PackageCommand
    \/ InstallPackages
    \/ DeployBackup
    \/ DeployOpen
    \/ DeployWrite
    \/ DeployEnd
    \/ CleanupCommand
    \/ CleanupAndFinalize
    \/ Prompt
    \/ UpdateRepoFile
    \/ UpdateRepoEnd
    \/ Tick

SpecFaults == InitFaults /\ [][NextFaults]_vars

(***************************************************************************)
(* The section functions on their own                                      *)
(***************************************************************************)
\* What a text is built from: the tags, a line end, other text, and two
\* halves of the start tag (which make a tag when they come to stand side by
\* side).
TextPieces ==
    {CUSTOM_START_TAG, CUSTOM_END_TAG, "\n", "x",
     "# >>> Hen", "ry's customizations"}

\* Any text, and no script running.
InitText ==
    /\ script = "app"
    /\ denied = {}
    /\ readonly = {}
    /\ locked = FALSE
    /\ dotfiles = [p \in Paths |-> NoFile]
    /\ home = [p \in Paths |-> NoFile]
    /\ InitRuns
    /\ \E content \in Texts(TextPieces, MaxTextPieces) : trail = <<content>>
    /\ extracted = <<>>
    /\ argv = NoArgv
    /\ operations = <<>>

\* remove_custom_sections applied to the last text of the trail.
RemoveCustomSections ==
    /\ trail # <<>>
    /\ Len(trail) <= MaxRemoves
    /\ trail' = Append(trail, remove_custom_sections(trail[Len(trail)]))
    /\ UNCHANGED <<machine, extracted, argv, operations>>

\* extract_custom_sections applied to the first text of the trail.
ExtractCustomSections ==
    /\ trail # <<>>
    /\ extracted = <<>>
    /\ extracted' = <<extract_custom_sections(trail[1])>>
    /\ UNCHANGED <<machine, trail, argv, operations>>

NextText == RemoveCustomSections \/ ExtractCustomSections

SpecText == InitText /\ [][NextText]_vars

(***************************************************************************)
(* The invocations of one command line                                     *)
(***************************************************************************)
\* Any command line and any answer to the menu, either script; one tracked
\* file whose home target is one of the samples; one invocation is looked
\* at, from the call of main to the end of the script.
InitMain ==
    /\ InitFiles(HomeSamples, {"a"})
    /\ locked = FALSE
    /\ InitControl
    /\ run_limit = 1
    /\ trail = <<>>
    /\ extracted = <<>>
    /\ \E args \in Args, choice \in Choices :
           argv = [args |-> args, choice |-> choice]
    /\ operations = <<>>

SpecMain == InitMain /\ [][Next]_vars

(***************************************************************************)
(* The backup tree and its removal                                         *)
(***************************************************************************)
\* One tracked file with a home target; either script; the backup tree may
\* be one that shutil.rmtree cannot remove.
InitClear ==
    /\ InitFiles({File("x\n")}, {"a"})
    /\ locked \in BOOLEAN
    /\ InitRuns
    /\ trail = <<>>
    /\ extracted = <<>>
    /\ argv = NoArgv
    /\ operations = <<>>

SpecClear == InitClear /\ [][Next]_vars

(***************************************************************************)
(* Properties                                                              *)
(***************************************************************************)
\* The entries of hist[p] with their positions.
Entries(p) == 1..Len(hist[p])

\* A text holds one of the two tags.
HasTag(content) ==
    Contains(content, CUSTOM_START_TAG) \/ Contains(content, CUSTOM_END_TAG)

\* The payload of a section: what stands between its two tags.
Payload(section) ==
    SubSeq(section, Len(CUSTOM_START_TAG) + 1,
           Len(section) - Len(CUSTOM_END_TAG))

\* Number of sections of a text whose payload is blank.
EmptySections(content) ==
    Len(SelectSeq(extract_custom_sections(content),
                  LAMBDA section : strip(Payload(section)) = ""))

\* C1: two deploys of a path in a row with the same repository content leave
\* the home file as the first deploy left it.
C1_DeployTwiceSameFile ==
    \A p \in Paths : \A i \in Entries(p) :
        ( /\ i + 1 \in Entries(p)
          /\ hist[p][i].op = "deploy"
          /\ hist[p][i + 1].op = "deploy"
          /\ hist[p][i + 1].src = hist[p][i].src )
        => hist[p][i + 1].after = hist[p][i].after

\* C2: a deploy onto an existing home file H writes remove_custom_sections(H)
\* followed by one custom section that holds the payload: the new file ends
\* with the fresh section, what stands before it is the text of H outside its
\* sections, and extract_custom_sections finds exactly one block in it, which
\* holds the payload.
C2_DeployOneSectionAfterUserText ==
    \A p \in Paths : \A i \in Entries(p) :
        LET e == hist[p][i]
            new == e.after.content
            sections == extract_custom_sections(new)
        IN  (e.op = "deploy" /\ e.before.exists)
            => /\ \E payload \in {e.src, strip(e.src)} :
                      /\ EndsWith(new, wrapped(payload))
                      /\ strip(SubSeq(new, 1, Len(new) - Len(wrapped(payload))))
                             = remove_custom_sections(e.before.content)
               /\ Len(sections) = 1
               /\ Contains(sections[1], strip(e.src))

\* C3: a deploy keeps the text outside the custom sections: after it,
\* remove_custom_sections of the home file is what it was before.
C3_DeployKeepsUserText ==
    \A p \in Paths : \A i \in Entries(p) :
        LET e == hist[p][i]
        IN  (e.op = "deploy" /\ e.before.exists)
            => remove_custom_sections(e.after.content)
                   = remove_custom_sections(e.before.content)

\* C4: a capture right after a deploy of a repository file without tags
\* leaves the repository file with the content that was deployed.
C4_CaptureAfterDeployRoundTrip ==
    \A p \in Paths : \A i \in Entries(p) :
        ( /\ i + 1 \in Entries(p)
          /\ hist[p][i].op = "deploy"
          /\ ~HasTag(hist[p][i].src)
          /\ hist[p][i + 1].op = "capture" )
        => hist[p][i + 1].after.content = hist[p][i].src

\* C5: whenever process_dotfiles or update_os_dotfiles changes the content of
\* an existing home file, a copy of the content it had is in the run's backup
\* directory at the same path when the home file is written.
C5_BackupBeforeOverwrite ==
    \A p \in Paths : \A i \in Entries(p) :
        LET e == hist[p][i]
        IN  ( /\ e.op \in {"deploy", "update_os"}
              /\ e.before.exists
              /\ e.after # e.before )
            => e.backup = e.before

\* C6: update_os_dotfiles merges: on a home file with text outside its custom
\* sections it writes what process_dotfiles writes, so that this text stays.
C6_UpdateOsMerges ==
    \A p \in Paths : \A i \in Entries(p) :
        LET e == hist[p][i]
        IN  ( /\ e.op = "update_os"
              /\ e.before.exists
              /\ remove_custom_sections(e.before.content) # "" )
            => /\ e.after.content = new_content(e.src, e.before.content)
               /\ Contains(e.after.content,
                           remove_custom_sections(e.before.content))

\* C7 as claimed: a deploy onto a missing target creates the file as start
\* tag, newline, the repository file's content, newline, end tag, newline,
\* which is one custom section and nothing else.
C7_CreatedFileIsContentBetweenTags ==
    \A p \in Paths : \A i \in Entries(p) :
        LET e == hist[p][i]
        IN  (e.op = "deploy" /\ ~e.before.exists)
            => /\ e.after.content = wrapped(e.src)
               /\ extract_custom_sections(e.after.content)
                      = <<SubSeq(e.after.content, 1, Len(e.after.content) - 1)>>

\* C7 as amended: the created file is start tag, newline, the repository
\* file's content (stripped of leading and trailing whitespace by app.py, as
\* read by setup.py), newline, end tag, newline; when that content holds no
\* end tag the file is one custom section followed by a newline.
C7_CreatedFileIsPayloadBetweenTags ==
    \A p \in Paths : \A i \in Entries(p) :
        LET e == hist[p][i]
            payload == IF script = "app" THEN strip(e.src) ELSE e.src
        IN  (e.op = "deploy" /\ ~e.before.exists)
            => /\ e.after.content
                      = CUSTOM_START_TAG \o "\n" \o payload \o "\n"
                            \o CUSTOM_END_TAG \o "\n"
               /\ ~Contains(e.src, CUSTOM_END_TAG)
                      => extract_custom_sections(e.after.content)
                             = <<SubSeq(e.after.content, 1,
                                        Len(e.after.content) - 1)>>

\* C7, its case: app.py has created the target of a repository file whose
\* content ends in whitespace.
C7_Witness ==
    \E p \in Paths : \E i \in Entries(p) :
        /\ script = "app"
        /\ hist[p][i].op = "deploy"
        /\ ~hist[p][i].before.exists
        /\ strip(hist[p][i].src) # hist[p][i].src
        /\ strip(hist[p][i].src) # ""
        /\ home[p] = hist[p][i].after

\* C8: remove_custom_sections applied twice gives what it gives applied once.
C8_RemoveIdempotent ==
    Len(trail) >= 3 => trail[3] = trail[2]

\* C9: on a text without any tag, remove_custom_sections returns the text
\* stripped of leading and trailing whitespace and extract_custom_sections
\* returns the empty list.
C9_NoTagStripAndNoSection ==
    (trail # <<>> /\ ~HasTag(trail[1]))
    => /\ Len(trail) >= 2 => trail[2] = strip(trail[1])
       /\ extracted # <<>> => extracted[1] = <<>>

\* C9, its case: both functions were applied to a text without a tag that
\* has whitespace at both ends and holds the halves of a tag.
C9_Witness ==
    /\ Len(trail) >= 2
    /\ extracted # <<>>
    /\ ~HasTag(trail[1])
    /\ lstrip(trail[1]) # trail[1]
    /\ rstrip(trail[1]) # trail[1]
    /\ Contains(trail[1], "ry's customizations")
    /\ trail[2] # ""

\* C10: from one deploy of a path to the next, the number of custom sections
\* with a blank payload in the home file does not grow.
C10_EmptySectionsDoNotGrow ==
    \A p \in Paths : \A i \in Entries(p) :
        ( /\ i + 1 \in Entries(p)
          /\ hist[p][i].op = "deploy"
          /\ hist[p][i + 1].op = "deploy" )
        => EmptySections(hist[p][i + 1].after.content)
               <= EmptySections(hist[p][i].after.content)

\* C11 (as stated): a step of the loop of update_repo_dotfiles counts a
\* failure exactly when the home file is missing or holds no custom section;
\* the failure leaves the success count and the repository file as they were
\* and the loop goes on with the remaining paths.
C11_CaptureFailsOnlyMissingOrNoSection ==
    [][ (phase = "update_repo" /\ todo # <<>>) =>
          LET dotfile == Head(todo)
              fails == \/ ~home[dotfile].exists
                       \/ extract_custom_sections(home[dotfile].content) = <<>>
          IN  /\ fails <=> (fail_count' = fail_count + 1)
              /\ fails => /\ success_count' = success_count
                          /\ dotfiles' = dotfiles
                          /\ phase' = "update_repo"
                          /\ todo' = Tail(todo) ]_vars

\* C11 (amended): a step of the loop of update_repo_dotfiles counts a failure
\* exactly when the home file is missing, reading it raises, or it holds no
\* custom section; the failure counts one, leaves the success count and
\* every repository file as they were, and the loop goes on with the
\* remaining paths; any other step counts one success and no failure.
C11_CaptureFailsMissingUnreadableOrNoSection ==
    [][ (phase = "update_repo" /\ todo # <<>>) =>
          LET dotfile == Head(todo)
              fails == \/ ~home[dotfile].exists
                       \/ dotfile \in denied
                       \/ extract_custom_sections(home[dotfile].content) = <<>>
          IN  /\ fails <=> (fail_count' = fail_count + 1)
              /\ fails => /\ success_count' = success_count
                          /\ dotfiles' = dotfiles
              /\ ~fails => /\ success_count' = success_count + 1
                           /\ fail_count' = fail_count
              /\ phase' = "update_repo"
              /\ todo' = Tail(todo) ]_vars

\* A capture of two paths is over: both failed, one of them a home file with
\* a custom section that could not be read, and the repository is as it was.
C11_Witness ==
    /\ phase = "update_repo"
    /\ todo = <<>>
    /\ fail_count = 2
    /\ success_count = 0
    /\ \E p \in denied : extract_custom_sections(home[p].content) # <<>>
    /\ \A p \in Paths : hist[p] = <<>>

\* C12: a step of the loop of update_repo_dotfiles on a path that has no file
\* under the dotfiles root counts one failure and no success, and creates no
\* file under the dotfiles root, whatever the home file at that path is.
C12_CaptureUntrackedFails ==
    [][ (phase = "update_repo" /\ todo # <<>> /\ ~dotfiles[Head(todo)].exists) =>
          /\ fail_count' = fail_count + 1
          /\ success_count' = success_count
          /\ ~dotfiles'[Head(todo)].exists ]_vars

\* C13: every successful capture has overwritten the repository file with
\* the custom sections of the home file, in document order, joined by a blank
\* line, and nothing else: the sections of the written text are those of the
\* home file and no text is left outside them.
C13_CaptureWritesSectionsOnly ==
    \A p \in Paths : \A i \in Entries(p) :
        hist[p][i].op = "capture" =>
            LET custom_sections == extract_custom_sections(hist[p][i].src)
                written == hist[p][i].after
            IN  /\ custom_sections # <<>>
                /\ written.exists
                /\ written.content = join("\n\n", custom_sections)
                /\ extract_custom_sections(written.content) = custom_sections
                /\ remove_custom_sections(written.content) = ""

\* A home file with two custom sections and user text before, between and
\* after them has been captured, and the repository file is what was written.
C13_Witness ==
    \E p \in Paths : \E i \in Entries(p) :
        /\ hist[p][i].op = "capture"
        /\ Len(extract_custom_sections(hist[p][i].src)) = 2
        /\ remove_custom_sections(hist[p][i].src) # ""
        /\ i = Len(hist[p])
        /\ dotfiles[p] = hist[p][i].after

\* C14 (as stated): when the loop of backup_dotfiles is over, every tracked
\* file whose home counterpart exists has a byte-for-byte copy at the same
\* relative path in the backup directory of the run, every tracked file whose
\* home counterpart is missing has been counted as a failure, and the two
\* counts add up to the number of tracked files.
C14_BackupCopiesEveryExistingFile ==
    (phase = "backup" /\ todo = <<>>) =>
        /\ \A p \in get_dotfiles_list :
               home[p].exists => BackupAt(backup_dir, p) = home[p]
        /\ fail_count >= Cardinality({p \in get_dotfiles_list : ~home[p].exists})
        /\ success_count + fail_count = Cardinality(get_dotfiles_list)

\* C14 (amended): when the loop of backup_dotfiles is over, every tracked
\* file whose home counterpart exists and could be copied has a byte-for-byte
\* copy at the same relative path in the backup directory of the run and is
\* counted as a success; every tracked file whose home counterpart is missing
\* or whose copy raised is counted as a failure; the two counts add up to the
\* number of tracked files.
C14_BackupCopiesEveryCopiableFile ==
    (phase = "backup" /\ todo = <<>>) =>
        LET copiable == {p \in get_dotfiles_list :
                             home[p].exists /\ p \notin denied}
        IN  /\ \A p \in copiable : BackupAt(backup_dir, p) = home[p]
            /\ success_count = Cardinality(copiable)
            /\ fail_count = Cardinality(get_dotfiles_list \ copiable)
            /\ success_count + fail_count = Cardinality(get_dotfiles_list)

\* A backup of two tracked files is over: one was copied as it is, the copy
\* of the other raised.
C14_Witness ==
    /\ phase = "backup"
    /\ todo = <<>>
    /\ Cardinality(get_dotfiles_list) = 2
    /\ success_count = 1
    /\ fail_count = 1
    /\ \E p \in Paths \ denied :
           home[p].content # "" /\ BackupAt(backup_dir, p) = home[p]
    /\ \E p \in denied : BackupAt(backup_dir, p) = NoFile

\* C15: no step of backup_dotfiles, from its call to its return, changes a
\* file under the dotfiles root or under the home directory, whether the
\* copy of the step succeeds or fails.
C15_BackupLeavesFilesAlone ==
    [][ (phase \in {"backup_dotfiles", "backup"}) =>
          (dotfiles' = dotfiles /\ home' = home) ]_vars

\* backup_dotfiles has gone through its loop with a copy that succeeded and
\* one that failed on a home file that exists.
C15_Witness ==
    /\ phase = "backup"
    /\ todo = <<>>
    /\ backup_files # {}
    /\ \E p \in get_dotfiles_list \cap denied : home[p].exists
    /\ fail_count >= 1

\* C16: in the full pipeline there is one backup directory: the directory
\* backup_dotfiles writes its copies into is the directory main created,
\* handed to process_dotfiles and reports in the summary.
C16_OneBackupDirPerRun ==
    (~standalone /\ phase \in {"backup", "install_software", "install_packages",
                               "process_dotfiles", "cleanup_and_finalize",
                               "prompt"})
        => backup_dir = run_backup_dir

\* A step in which main calls clear_backups: as the operation of the
\* invocation (--clear, menu choice 5), or on "y" at the end of the full
\* pipeline.
ClearStep ==
    \/ runs' = runs + 1 /\ operations' = <<"clear">>
    \/ runs' = runs /\ operations' = Append(operations, "clear")

\* C17: a run writes into a fresh backup directory (the directory main
\* creates for the full pipeline, and the one backup_dotfiles creates for a
\* standalone backup, did not exist before), and no step other than a clear
\* removes or overwrites a file that is in the backup tree.
C17_BackupDirsNeverMutated ==
    [][ /\ (phase = "idle" /\ phase' = "backup_dotfiles" /\ ~standalone')
               => run_backup_dir' \notin backup_dirs
        /\ (phase = "backup_dotfiles" /\ phase' = "backup" /\ standalone)
               => backup_dir' \notin backup_dirs
        /\ (backup_files \subseteq backup_files') \/ ClearStep ]_vars

\* C18 (as stated): a call of clear_backups leaves no backup root, no backup
\* directory and no backup file, of full runs and of standalone backups
\* alike; without a backup root it changes nothing; in both cases the files
\* under the dotfiles root and the home directory stay as they are and
\* nothing is raised (the script comes to its end).
C18_ClearRemovesEveryBackup ==
    [][ ClearStep =>
          ( /\ ~backup_root'
            /\ backup_dirs' = {}
            /\ backup_files' = {}
            /\ ~backup_root => UNCHANGED <<backup_root, backup_dirs, backup_files>>
            /\ dotfiles' = dotfiles
            /\ home' = home
            /\ phase' = "idle" ) ]_vars

\* C18 (amended): a call of clear_backups leaves no backup root, no backup
\* directory and no backup file, of full runs and of standalone backups
\* alike, unless shutil.rmtree raises: then the backup root is still there
\* with a part of the directories and files it held, and nothing new;
\* without a backup root the call changes nothing; in every case the files
\* under the dotfiles root and the home directory stay as they are and
\* nothing is raised (the script comes to its end).
C18_ClearRemovesUnlessRmtreeRaises ==
    [][ ClearStep =>
          ( /\ \/ /\ ~backup_root'
                  /\ backup_dirs' = {}
                  /\ backup_files' = {}
               \/ /\ locked
                  /\ backup_root
                  /\ backup_root'
                  /\ backup_dirs' \subseteq backup_dirs
                  /\ backup_files' \subseteq backup_files
            /\ ~backup_root => UNCHANGED <<backup_root, backup_dirs, backup_files>>
            /\ dotfiles' = dotfiles
            /\ home' = home
            /\ phase' = "idle" ) ]_vars

\* The second of two invocations was a clear (--clear, menu choice 5) on a
\* tree rmtree can remove, and it removed a backup directory.  The clock
\* only moves on from a second in which a directory was made, so that one
\* was made in the first invocation; no file was ever deployed, so that the
\* first invocation never came to its final question, the only other call
\* of clear_backups; and nothing is left of the backup tree.
C18_Witness ==
    /\ phase = "idle"
    /\ runs = 2
    /\ operations = <<"clear">>
    /\ clock = 1
    /\ \A p \in Paths : hist[p] = <<>>
    /\ ~locked
    /\ ~backup_root
    /\ backup_dirs = {}
    /\ backup_files = {}

\* C19: a home file is never half-written: while process_dotfiles has a
\* target open for writing, the target is either what it was before the
\* deploy of that file began or what it is when the deploy of that file is
\* complete.
C19_NoHalfWrittenHomeFile ==
    (phase = "process_dotfiles" /\ writing.open) =>
        home[Head(todo)] \in {writing.before, File(writing.content)}

\* C20: in a full pipeline in which install_homebrew has failed, none of the
\* installation steps that follow it in install_software (font download,
\* package installs and upgrades, post-install hooks) is started; the step
\* that returns the failure leads straight to process_dotfiles with every
\* tracked file in its work list, and when process_dotfiles is over every
\* tracked file has been counted as a success or as a failure.
C20_HomebrewFailureSkipsInstallsOnly ==
    /\ [](homebrew = "failed" =>
              (attempted = {} /\ phase # "install_packages"))
    /\ []((homebrew = "failed" /\ phase = "cleanup_and_finalize") =>
              success_count + fail_count = Cardinality(get_dotfiles_list))
    /\ [][ (homebrew # "failed" /\ homebrew' = "failed") =>
               (phase' = "process_dotfiles"
                /\ todo' \in Orders(get_dotfiles_list)) ]_vars

\* install_homebrew has failed and process_dotfiles has since deployed the
\* tracked file.
C20_Witness ==
    /\ homebrew = "failed"
    /\ attempted = {}
    /\ phase = "cleanup_and_finalize"
    /\ success_count = 1
    /\ \E p \in get_dotfiles_list :
           hist[p] # <<>> /\ hist[p][Len(hist[p])].op = "deploy"

\* The steps from one phase of the full pipeline to the next: backup,
\* software installation, deploy, cleanup, in the order of main; the
\* pipeline stops short, at the end of the script, when a brew command of
\* install_software or of cleanup_and_finalize raises.
PipelineOrder ==
    {<<"backup", "install_software">>,
     <<"install_software", "install_packages">>,
     <<"install_software", "process_dotfiles">>,
     <<"install_packages", "process_dotfiles">>,
     <<"install_packages", "idle">>,
     <<"process_dotfiles", "cleanup_and_finalize">>,
     <<"cleanup_and_finalize", "prompt">>,
     <<"cleanup_and_finalize", "idle">>}

\* C21: the full pipeline runs its phases strictly in the order backup,
\* software installation, deploy, cleanup, and they do not overlap: at most
\* one external command is in flight at any time; a command of
\* install_homebrew runs only while install_software is at install_homebrew,
\* a package command only in the rest of install_software, a cleanup command
\* only in cleanup_and_finalize, so none is in flight while process_dotfiles
\* runs or after the pipeline; a home file is written only by the dotfile
\* loops and with no command in flight; and the pipeline goes from each phase
\* to the next one of the order only.
C21_PipelinePhasesInOrder ==
    /\ [](Cardinality(running) <= 1)
    /\ []("homebrew" \in running => phase = "install_software")
    /\ []("package" \in running => phase = "install_packages")
    /\ []("cleanup" \in running => phase = "cleanup_and_finalize")
    /\ [][ (home' # home) =>
               (phase \in {"process_dotfiles", "update_os"} /\ running = {}) ]_vars
    /\ [][ (phase' # phase /\ ~standalone
            /\ phase \in {"backup", "install_software", "install_packages",
                          "process_dotfiles", "cleanup_and_finalize"}) =>
               (<<phase, phase'>> \in PipelineOrder) ]_vars

\* The software installation has run its commands, process_dotfiles has
\* since deployed the tracked file, and a command of cleanup_and_finalize is
\* in flight.
C21_Witness ==
    /\ phase = "cleanup_and_finalize"
    /\ running = {"cleanup"}
    /\ homebrew = "ok"
    /\ attempted = {"font", "packages"}
    /\ success_count = 1
    /\ \E p \in get_dotfiles_list :
           hist[p] # <<>> /\ hist[p][Len(hist[p])].op = "deploy"

\* No flag is given on the command line.
NoFlag(args) ==
    ~(args.clear \/ args.backup \/ args.given \/ args.update_os)

\* The operations main can execute.
Operations == {"clear", "backup", "update_repo", "update_os", "full"}

\* C22 (as stated): whatever the flags and whatever the menu choice, an
\* invocation that has come to its end has executed exactly one of clear,
\* standalone backup, capture, deploy-all and full pipeline, and the full
\* pipeline only when no flag was given.
C22_ExactlyOneOperation ==
    (argv # NoArgv /\ phase = "idle" /\ runs = 1) =>
        /\ Len(operations) = 1
        /\ operations[1] \in Operations
        /\ operations[1] = "full" => NoFlag(argv.args)

\* C22 (amended): whatever the flags and whatever the menu choice, an
\* invocation that has come to its end has executed none of the operations
\* when app.py was run without a flag and the menu was left with choice 6
\* (Exit); otherwise it has executed one of clear, standalone backup,
\* capture, deploy-all and full pipeline, and nothing else, except that a
\* full pipeline may be followed by a clear (its final question answered
\* with "y"); and the full pipeline is executed only when no flag was given.
C22_OneOperationExitOrFinalClear ==
    (argv # NoArgv /\ phase = "idle" /\ runs = 1) =>
        IF script = "app" /\ NoFlag(argv.args) /\ argv.choice = 6
        THEN operations = <<>>
        ELSE /\ operations # <<>>
             /\ operations[1] \in Operations
             /\ operations[1] = "full" => NoFlag(argv.args)
             /\ Len(operations) = 1 \/ operations = <<"full", "clear">>

\* setup.py was run with --update_repo and --update_os together, has
\* executed the capture and nothing else, and has come to its end.
C22_Witness ==
    /\ argv # NoArgv
    /\ phase = "idle"
    /\ runs = 1
    /\ script = "setup"
    /\ argv.args.given
    /\ argv.args.update_os
    /\ ~argv.args.clear
    /\ ~argv.args.backup
    /\ operations = <<"update_repo">>

\* The tag stands at position i of s as a line of its own: the text starts
\* or a line ends before it, and the text or the line ends after it.
ExactLineAt(s, tag, i) ==
    /\ OccursAt(s, tag, i)
    /\ i = 1 \/ SubSeq(s, i - 1, i - 1) = "\n"
    /\ \/ i + Len(tag) - 1 = Len(s)
       \/ SubSeq(s, i + Len(tag), i + Len(tag)) = "\n"

\* s has a line that is exactly the tag.
HasExactLine(s, tag) == \E i \in 1..Len(s) : ExactLineAt(s, tag, i)

\* C23: a custom section is recognised only between a line that is exactly
\* the start marker and a line that is exactly the end marker: from a text
\* in which no line is exactly a marker (the markers occur with other
\* characters on their line, or not at all), extract_custom_sections returns
\* no section and remove_custom_sections returns the stripped text.
C23_OnlyExactMarkerLinesDelimit ==
    (/\ trail # <<>>
     /\ ~HasExactLine(trail[1], CUSTOM_START_TAG)
     /\ ~HasExactLine(trail[1], CUSTOM_END_TAG)) =>
        /\ extracted # <<>> => extracted[1] = <<>>
        /\ Len(trail) >= 2 => trail[2] = strip(trail[1])

\* sections are, in this order, the spans of content that each run from the
\* first start marker not yet passed to the first end marker after it, the
\* search going on behind that end marker; after the last of them no start
\* marker is followed by an end marker.
RECURSIVE FirstSpans(_, _)
FirstSpans(content, sections) ==
    LET s == Find(content, CUSTOM_START_TAG, 1)
        e == IF s = 0 THEN 0
             ELSE Find(content, CUSTOM_END_TAG, s + Len(CUSTOM_START_TAG))
    IN  IF sections = <<>> THEN e = 0
        ELSE /\ e # 0
             /\ Head(sections) = SubSeq(content, s, e + Len(CUSTOM_END_TAG) - 1)
             /\ FirstSpans(From(content, e + Len(CUSTOM_END_TAG)),
                           Tail(sections))

\* C24: extract_custom_sections returns the sections in document order, each
\* the span from a start marker to the first end marker that follows it, the
\* matching resuming after that end marker, so that the spans do not overlap;
\* each section begins with the start marker and holds the end marker at its
\* end only; for the nested text start, start, end, end the one section
\* returned runs from the first start marker to the first end marker.
C24_ExtractFirstEndInOrder ==
    (trail # <<>> /\ extracted # <<>>) =>
        /\ FirstSpans(trail[1], extracted[1])
        /\ \A k \in 1..Len(extracted[1]) :
               LET section == extracted[1][k]
               IN  /\ OccursAt(section, CUSTOM_START_TAG, 1)
                   /\ Find(section, CUSTOM_END_TAG, 1) =
                          Len(section) - Len(CUSTOM_END_TAG) + 1
        /\ (trail[1] = CUSTOM_START_TAG \o CUSTOM_START_TAG
                       \o CUSTOM_END_TAG \o CUSTOM_END_TAG) =>
               extracted[1] = <<CUSTOM_START_TAG \o CUSTOM_START_TAG
                                \o CUSTOM_END_TAG>>

\* extract_custom_sections has been applied to the nested text start, start,
\* end, end and has returned the span from the first start marker to the
\* first end marker.
C24_Witness ==
    /\ trail # <<>>
    /\ trail[1] = CUSTOM_START_TAG \o CUSTOM_START_TAG
                  \o CUSTOM_END_TAG \o CUSTOM_END_TAG
    /\ extracted = <<(<<CUSTOM_START_TAG \o CUSTOM_START_TAG
                        \o CUSTOM_END_TAG>>)>>

\* C25: a failure of one file stays with that file.  While process_dotfiles
\* or update_repo_dotfiles runs its loop, a step either leaves the work list
\* as it is or takes its first file off it and counts that file once, as a
\* success or as a failure (a file whose read, copy or write raises: as a
\* failure); the loop starts with both counts at zero and ends only when the
\* work list is empty, so every file is attempted once and the two counts
\* add up to the number of files in the work list.
C25_FileFailureIsLocal ==
    /\ [][ (phase' # phase /\ phase' \in {"process_dotfiles", "update_repo"}) =>
               (success_count' = 0 /\ fail_count' = 0) ]_vars
    /\ [][ (phase \in {"process_dotfiles", "update_repo"} /\ phase' = phase) =>
               (\/ /\ todo' = todo
                   /\ success_count' = success_count
                   /\ fail_count' = fail_count
                \/ /\ todo # <<>>
                   /\ todo' = Tail(todo)
                   /\ \/ /\ success_count' = success_count + 1
                         /\ fail_count' = fail_count
                      \/ /\ success_count' = success_count
                         /\ fail_count' = fail_count + 1
                   /\ (/\ home[Head(todo)].exists
                       /\ Head(todo) \in denied \cup
                              (IF phase = "process_dotfiles"
                               THEN readonly ELSE {}))
                          => fail_count' = fail_count + 1) ]_vars
    /\ [][ (phase \in {"process_dotfiles", "update_repo"} /\ phase' # phase) =>
               (todo = <<>>) ]_vars
    /\ [](phase = "cleanup_and_finalize" =>
              success_count + fail_count = Cardinality(get_dotfiles_list))

\* process_dotfiles is over: one of the two tracked files was copied into
\* the directory of main (which is not the one of backup_dotfiles, a second
\* later), the open for writing raised on it and it is as it was, and the
\* other one was deployed.
C25_Witness ==
    /\ phase = "cleanup_and_finalize"
    /\ run_backup_dir # backup_dir
    /\ success_count = 1
    /\ fail_count = 1
    /\ \E p \in readonly, q \in Paths \ (denied \cup readonly) :
           /\ hist[p] = <<>>
           /\ home[p].exists
           /\ BackupAt(run_backup_dir, p) = home[p]
           /\ hist[q] # <<>>
           /\ hist[q][Len(hist[q])].op = "deploy"

\* C28: when the copy of an existing home file into the backup directory
\* raises in process_dotfiles, the home file stays as it is, the file is
\* counted as one failure and not as a success, and the loop goes on with
\* the next file of the work list; no later step of the run writes the file
\* either.
C28_FailedCopyLeavesHomeFile ==
    /\ [][ (/\ phase = "process_dotfiles"
            /\ todo # <<>>
            /\ ~copied
            /\ ~writing.open
            /\ home[Head(todo)].exists
            /\ copy2_raises(run_backup_dir, Head(todo))) =>
               (/\ home' = home
                /\ fail_count' = fail_count + 1
                /\ success_count' = success_count
                /\ todo' = Tail(todo)
                /\ phase' = "process_dotfiles"
                /\ ~copied'
                /\ ~writing'.open) ]_vars
    /\ [][ \A p \in denied : home'[p] = home[p] ]_vars

\* process_dotfiles is over: the copy of the first file of the work list
\* raised, the file is as it was and has no copy in the backup directory,
\* and the second file was deployed.
C28_Witness ==
    /\ phase = "cleanup_and_finalize"
    /\ success_count = 1
    /\ fail_count = 1
    /\ \E p \in denied, q \in Paths \ (denied \cup readonly) :
           /\ hist[p] = <<>>
           /\ BackupAt(run_backup_dir, p) = NoFile
           /\ hist[q] # <<>>
           /\ hist[q][Len(hist[q])].op = "deploy"

\* C26: the backups of a standalone backup (--backup, menu choice 2) and
\* those of a full pipeline are kept apart: every directory a run makes and
\* every file it writes in the backup tree is under
\* backups/_standalones/<timestamp>/ when the run is a standalone backup and
\* directly under backups/<timestamp>/, never under _standalones, when it is
\* a full pipeline.
C26_StandaloneBackupsApart ==
    [][ /\ \A dir \in backup_dirs' \ backup_dirs : dir[1] = standalone'
        /\ \A f \in backup_files' \ backup_files : f.dir[1] = standalone ]_vars

\* A standalone backup has left a copy under _standalones, and a full
\* pipeline after it has copied the home file under its own directory.
C26_Witness ==
    /\ phase = "process_dotfiles"
    /\ ~standalone
    /\ \E f \in backup_files, g \in backup_files :
           /\ f.dir[1]
           /\ ~g.dir[1]
           /\ g.dir = run_backup_dir
           /\ f.path = g.path

\* The section a deploy appends for the repository text src: the payload as
\* the script takes it, between the markers.
Appended(src) == wrapped(IF script = "app" THEN strip(src) ELSE src)

\* C27: the section a deploy appends to an existing home file is set off by
\* one newline: the new file ends with the appended section (whose end
\* marker is followed by one newline, the last character of the file); what
\* stands before the section is either nothing, or prior content whose last
\* character other than a newline is followed by just one newline; and the
\* file does not begin with a newline when nothing of the old file is kept.
C27_AppendedSectionSetOffByOneNewline ==
    \A p \in Paths : \A i \in Entries(p) :
        LET e == hist[p][i]
            new == e.after.content
            fresh == Appended(e.src)
            prior == SubSeq(new, 1, Len(new) - Len(fresh))
        IN  (e.op = "deploy" /\ e.before.exists) =>
                /\ EndsWith(new, fresh)
                /\ \/ prior = ""
                   \/ /\ Len(prior) >= 2
                      /\ EndsWith(prior, "\n")
                      /\ ~EndsWith(prior, "\n\n")
                /\ (remove_custom_sections(e.before.content) = ""
                    /\ extract_custom_sections(e.before.content) = <<>>)
                       => ~OccursAt(new, "\n", 1)

\* The blocks of a home file that app.py keeps: every custom section other
\* than the start marker, one newline and the end marker.
Retained(content) ==
    SelectSeq(extract_custom_sections(content),
              LAMBDA section :
                  section # CUSTOM_START_TAG \o "\n" \o CUSTOM_END_TAG)

\* What app.py is to write over the home file content for the repository
\* text src: the stripped text outside the sections (with a newline when
\* there is any), the retained blocks in their order, a newline after each,
\* and the fresh section.
CarriedForward(src, content) ==
    LET text == remove_custom_sections(content)
        kept == Retained(content)
    IN  (IF text = "" THEN "" ELSE text \o "\n")
        \o join("\n", kept) \o (IF kept = <<>> THEN "" ELSE "\n")
        \o wrapped(strip(src))

\* C29, for the deploy last recorded for a path (every deploy is the last
\* one in the state it leads to): in app.py a deploy over an existing home
\* file writes the stripped non-section content, then every retained block
\* verbatim and in order, then the fresh section, and the number of custom
\* sections of the new home file is the number of retained blocks plus one.
C29_SectionsCarriedAndCounted ==
    \A p \in Paths :
        LET e == hist[p][Len(hist[p])]
        IN  (/\ hist[p] # <<>>
             /\ script = "app"
             /\ e.op = "deploy"
             /\ e.before.exists) =>
                /\ e.after.content = CarriedForward(e.src, e.before.content)
                /\ Len(extract_custom_sections(e.after.content)) =
                       Len(Retained(e.before.content)) + 1

\* A custom section of content holds a start marker behind its own: marker
\* lines are nested.
Nested(content) ==
    \E k \in 1..Len(extract_custom_sections(content)) :
        Find(extract_custom_sections(content)[k], CUSTOM_START_TAG, 2) # 0

\* C30: deploy and capture in turn on one tracked file, with no edit in
\* between, come to rest: of MaxCycles deploy-then-capture cycles in a row at
\* least one leaves the home file and the repository file byte-identical
\* (from a cycle that changes nothing on, every cycle changes nothing), and
\* no deploy leaves nested marker lines in the home file.
C30_CyclesReachFixedPoint ==
    \A p \in Paths :
        /\ (/\ Len(hist[p]) = 2 * MaxCycles
            /\ \A k \in 1..MaxCycles :
                   /\ hist[p][2 * k - 1].op = "deploy"
                   /\ hist[p][2 * k].op = "capture") =>
               \E k \in 1..MaxCycles :
                   /\ hist[p][2 * k - 1].after = hist[p][2 * k - 1].before
                   /\ hist[p][2 * k].after = hist[p][2 * k].before
        /\ \A i \in Entries(p) :
               hist[p][i].op = "deploy" => ~Nested(hist[p][i].after.content)

====
